---- MODULE Spec2Model ----
(***************************************************************************)
(* Quiz attempt engine of SCHMGMT (src/quiz/views.py).                     *)
(*                                                                         *)
(* The views are modelled from the source.  The methods of Quiz, Sitting,  *)
(* Question and Progress (quiz/models.py) are modelled from the written    *)
(* specification: every Sitting method is one atomic read-modify-write of  *)
(* the stored Sitting row.  A request is a sequence of such persisted      *)
(* steps (the views open no transaction around them), so the steps of two  *)
(* requests interleave.                                                    *)
(***************************************************************************)
EXTENDS Integers, Sequences, FiniteSets, TLC

\* ------------------------------------------------------------- bounds
MaxTime == 2
MaxSittings == 2
MaxResubmits == 2

\* ------------------------------------------------------------- universe
Students == {"stu"}
Staff == {"tch"}
Users == Students \cup Staff
\* a second learner, who acts in the course specification only
Classmates == {"stv"}
Learners == Students \cup Classmates
Courses == {"c1", "c2"}
Reqs == {1, 2}
Guesses == {"right", "wrong"}
\* question ids; get_form_class (lines 560-567) tells the Essay questions
Questions == {1, 2, 3}
EssayQuestions == {3}
None == "none"
\* a null timestamp / null duration (Python None)
NoTime == 0 - 1

VARIABLES
    now,        \* the server clock, now()
    quiz,       \* the Quiz row (the policy) addressed by the slug
    sittings,   \* the Sitting table: id -> row
    nextId,     \* next primary key of the Sitting table
    progress,   \* the Progress table: user -> counters
    req,        \* the QuizTake POST requests in flight
    response    \* the response the last step sent, if it sent one

vars == <<now, quiz, sittings, nextId, progress, req, response>>

\* ------------------------------------------------------------- users
is_student(u) == u \in Learners
is_lecturer(u) == u \in Staff
is_superuser(u) == FALSE

\* result.models.TakenCourse as quiz_list asks it (lines 154-157): the
\* courses a student is enrolled in
TakenCourse(u, c) ==
    <<u, c>> \in {<<"stu", "c1">>, <<"stv", "c1">>, <<"stv", "c2">>}

\* quiz_list, lines 148-157: who may see the quizzes of course c; staff are
\* taken to reach the level of every course
can_access(u, c) ==
    IF is_superuser(u) THEN TRUE
    ELSE IF is_lecturer(u) THEN TRUE
    ELSE IF is_student(u) THEN TakenCourse(u, c)
    ELSE FALSE

\* ------------------------------------------------------------- Quiz
is_expired(q) == q.available_until # NoTime /\ now > q.available_until

is_available(q) ==
    /\ ~q.draft
    /\ ~(q.available_from # NoTime /\ now < q.available_from)
    /\ ~is_expired(q)

\* the draft flag looked at after the window instead of before it
get_quiz_status_window_first(q) ==
    IF q.available_from # NoTime /\ now < q.available_from THEN "upcoming"
    ELSE IF is_expired(q) THEN "closed"
    ELSE IF q.draft THEN "draft"
    ELSE "active"

_get_quiz_status(q) ==
    IF q.draft THEN "draft"
    ELSE IF q.available_from # NoTime /\ now < q.available_from THEN "upcoming"
    ELSE IF is_expired(q) THEN "closed"
    ELSE "active"

\* ------------------------------------------------------------- Question
check_if_correct(question, guess) == guess = "right"

\* ------------------------------------------------------------- Sitting
SetMin(S) == CHOOSE x \in S : \A y \in S : x <= y

CompletedCount(u) ==
    Cardinality({i \in DOMAIN sittings :
                    sittings[i].user = u /\ sittings[i].complete})

Unfinished(u, c) ==
    {i \in DOMAIN sittings :
        /\ sittings[i].user = u
        /\ sittings[i].course = c
        /\ ~sittings[i].complete}

new_sitting(u, c) ==
    [user |-> u, course |-> c,
     attempt_number |-> CompletedCount(u) + 1,
     question_order |-> quiz.questions,
     question_list |-> quiz.questions,
     user_answers |-> <<>>,
     incorrect_questions |-> {},
     current_score |-> 0,
     start |-> now, complete |-> FALSE, end |-> NoTime]

\* id of the Sitting user_sitting returns: 0 is "no sitting" (attempts used
\* up), nextId is a Sitting it creates
user_sitting(u, c) ==
    IF CompletedCount(u) >= quiz.max_attempts THEN 0
    ELSE IF Unfinished(u, c) # {} THEN SetMin(Unfinished(u, c))
    ELSE nextId

get_time_remaining(s) ==
    IF quiz.time_limit_minutes - (now - s.start) > 0
    THEN quiz.time_limit_minutes - (now - s.start)
    ELSE 0

is_time_expired(s) ==
    quiz.time_limit_minutes # NoTime /\ get_time_remaining(s) = 0

get_first_question(s) ==
    IF Len(s.question_list) = 0 THEN 0 ELSE Head(s.question_list)

sitting_progress(s) ==
    <<Cardinality(DOMAIN s.user_answers), Len(s.question_order)>>

add_to_score(s, n) == [s EXCEPT !.current_score = @ + n]

add_incorrect_question(s, q) ==
    [s EXCEPT !.incorrect_questions = @ \cup {q}]

remove_incorrect_question(s, q) ==
    [s EXCEPT !.incorrect_questions = @ \ {q}]

get_incorrect_questions(s) == s.incorrect_questions

add_user_answer(s, q, guess) ==
    [s EXCEPT !.user_answers =
        [x \in DOMAIN @ \cup {q} |-> IF x = q THEN guess ELSE @[x]]]

remove_first_question(s) ==
    IF Len(s.question_list) = 0 THEN s
    ELSE [s EXCEPT !.question_list = Tail(@)]

mark_quiz_complete(s) ==
    IF s.complete THEN s
    ELSE [s EXCEPT !.complete = TRUE, !.end = now]

\* Essay questions are not part of the denominator
get_max_score(s) ==
    Cardinality({k \in 1..Len(s.question_order) :
                    s.question_order[k] \notin EssayQuestions})

get_percent_correct(s) ==
    IF get_max_score(s) = 0 THEN 0
    ELSE (s.current_score * 100) \div get_max_score(s)

check_if_passed(s) == get_percent_correct(s) >= quiz.pass_mark

\* ------------------------------------------------------------- Progress
update_score(p, score, possible) ==
    [p EXCEPT !.correct = @ + score, !.total = @ + possible]

\* ------------------------------------------------------------- responses
EmptyPrevious == [answer |-> None, outcome |-> None, question |-> 0]

Resp(kind, msg) ==
    [kind |-> kind, msg |-> msg, method |-> None, user |-> None, sid |-> 0,
     question |-> 0,
     previous |-> EmptyPrevious, progress |-> <<0, 0>>,
     score |-> 0, percent |-> 0, end |-> NoTime, with_answers |-> FALSE,
     show_answers |-> FALSE, rows |-> {}, passed_count |-> 0]

NoResponse == Resp("none", None)

IdleReq == [pc |-> "idle", user |-> None, course |-> None, sid |-> 0,
            question |-> 0, guess |-> None]

\* ------------------------------------------------------------- Init
\* the policies of the attempt-loop specification: no availability window
Policies ==
    [course : {"c1"},
     draft : {FALSE},
     available_from : {NoTime},
     available_until : {NoTime},
     time_limit_minutes : {NoTime, 1},
     answers_at_end : BOOLEAN,
     exam_paper : BOOLEAN,
     max_attempts : {1, 2},
     pass_mark : {50},
     show_correct_answers_after : {NoTime},
     allow_review_after_submission : {FALSE},
     questions : {<<1, 2>>}]

\* the policies of the availability specification
GatePolicies ==
    [course : {"c1"},
     draft : {FALSE},
     available_from : {NoTime, 1},
     available_until : {NoTime, 1, 2},
     time_limit_minutes : {NoTime, 1},
     answers_at_end : {FALSE},
     exam_paper : {TRUE},
     max_attempts : {2},
     pass_mark : {50},
     show_correct_answers_after : {NoTime},
     allow_review_after_submission : {FALSE},
     questions : {<<1>>}]

\* the policies of the concurrent-requests specification
RacePolicies ==
    [course : {"c1"},
     draft : {FALSE},
     available_from : {NoTime},
     available_until : {NoTime},
     time_limit_minutes : {NoTime},
     answers_at_end : {FALSE},
     exam_paper : BOOLEAN,
     max_attempts : {1, 2},
     pass_mark : {50},
     show_correct_answers_after : {NoTime},
     allow_review_after_submission : {FALSE},
     questions : {<<1>>}]

InitWith(P) ==
    /\ now = 0
    /\ quiz \in P
    /\ sittings = <<>>
    /\ nextId = 1
    /\ progress = [u \in Users \cup Learners |-> [correct |-> 0, total |-> 0]]
    /\ req = [r \in Reqs |-> IdleReq]
    /\ response = NoResponse

Init == InitWith(Policies)

\* QuizAddForm.clean, lines 131-133: a window closes after it opens
Windows == {<<NoTime, NoTime>>, <<1, NoTime>>, <<NoTime, 1>>, <<1, 2>>}

InitGate ==
    /\ InitWith(GatePolicies)
    /\ <<quiz.available_from, quiz.available_until>> \in Windows

InitRace == InitWith(RacePolicies)

\* the policies of the review specification: one attempt, kept when done.
\* QuizAddForm.clean (forms.py lines 135-137) lets the answers show no
\* earlier than the quiz closes.
ReviewPolicies ==
    [course : {"c1"},
     draft : {FALSE},
     available_from : {NoTime},
     available_until : {NoTime, 1},
     time_limit_minutes : {NoTime, 1},
     answers_at_end : {FALSE},
     exam_paper : {TRUE},
     max_attempts : {1},
     pass_mark : {50},
     show_correct_answers_after : {NoTime, 1},
     allow_review_after_submission : BOOLEAN,
     questions : {<<1>>}]

InitReview == InitWith(ReviewPolicies)

\* the policies of the admission specification: one attempt, kept when done
AdmitPolicies ==
    [course : {"c1"},
     draft : {FALSE},
     available_from : {NoTime},
     available_until : {NoTime, 1},
     time_limit_minutes : {NoTime},
     answers_at_end : {FALSE},
     exam_paper : {TRUE},
     max_attempts : {1},
     pass_mark : {50},
     show_correct_answers_after : {NoTime},
     allow_review_after_submission : {FALSE},
     questions : {<<>>, <<1>>}]

InitAdmit == InitWith(AdmitPolicies)

\* the policies of the question-types specification: quizzes with an Essay
EssayPolicies ==
    [course : {"c1"},
     draft : {FALSE},
     available_from : {NoTime},
     available_until : {NoTime},
     time_limit_minutes : {NoTime},
     answers_at_end : BOOLEAN,
     exam_paper : BOOLEAN,
     max_attempts : {1, 2},
     pass_mark : {50},
     show_correct_answers_after : {NoTime},
     allow_review_after_submission : {FALSE},
     questions : {<<3>>, <<1, 3>>, <<3, 1>>}]

InitEssay == InitWith(EssayPolicies)

\* the policies of the interrupted-request specification: one attempt at
\* two questions, kept when done
CrashPolicies ==
    [course : {"c1"},
     draft : {FALSE},
     available_from : {NoTime},
     available_until : {NoTime},
     time_limit_minutes : {NoTime},
     answers_at_end : BOOLEAN,
     exam_paper : {TRUE},
     max_attempts : {1},
     pass_mark : {50},
     show_correct_answers_after : {NoTime},
     allow_review_after_submission : {FALSE},
     questions : {<<1, 2>>, <<2, 1>>}]

InitCrash == InitWith(CrashPolicies)

\* the policies of the course specification: a quiz of either course, two
\* attempts, kept when done
CoursePolicies ==
    [course : Courses,
     draft : {FALSE},
     available_from : {NoTime},
     available_until : {NoTime},
     time_limit_minutes : {NoTime},
     answers_at_end : {FALSE},
     exam_paper : {TRUE},
     max_attempts : {2},
     pass_mark : {50},
     show_correct_answers_after : {NoTime},
     allow_review_after_submission : {FALSE},
     questions : {<<1>>}]

InitCourse == InitWith(CoursePolicies)

\* the policies of the marking specification: one attempt at two
\* questions, kept when done
MarkingPolicies ==
    [course : {"c1"},
     draft : {FALSE},
     available_from : {NoTime},
     available_until : {NoTime},
     time_limit_minutes : {NoTime},
     answers_at_end : {FALSE},
     exam_paper : {TRUE},
     max_attempts : {1},
     pass_mark : {50},
     show_correct_answers_after : {NoTime},
     allow_review_after_submission : {FALSE},
     questions : {<<1, 2>>, <<1, 3>>}]

InitMarking == InitWith(MarkingPolicies)

\* ------------------------------------------------------------- actions
Tick ==
    /\ now < MaxTime
    /\ now' = now + 1
    /\ response' = NoResponse
    /\ UNCHANGED <<quiz, sittings, nextId, progress, req>>

quiz_toggle_draft(u) ==
    /\ is_lecturer(u)
    /\ quiz' = [quiz EXCEPT !.draft = ~@]
    /\ response' = Resp("json", IF quiz'.draft THEN "draft"
                                ELSE _get_quiz_status(quiz'))
    /\ UNCHANGED <<now, sittings, nextId, progress, req>>

\* the gate without its availability check (lines 515-528)
dispatch_gate_draft_only(u) ==
    IF is_student(u) /\ quiz.draft THEN "draft"
    ELSE IF Len(quiz.questions) = 0 THEN "empty"
    ELSE "admit"

\* the gate with the check for questions made first
dispatch_gate_empty_first(u) ==
    IF Len(quiz.questions) = 0 THEN "empty"
    ELSE IF is_student(u) /\ quiz.draft THEN "draft"
    ELSE IF ~is_available(quiz) /\ is_student(u) THEN
        IF is_expired(quiz) THEN "closed"
        ELSE IF quiz.available_from # NoTime /\ now < quiz.available_from
             THEN "upcoming"
        ELSE "no_longer"
    ELSE "admit"

\* QuizTake.dispatch, lines 510-532: the checks made before a Sitting is
\* looked up.  "admit" lets the request through.
dispatch_gate(u) ==
    IF is_student(u) /\ quiz.draft THEN "draft"
    ELSE IF ~is_available(quiz) /\ is_student(u) THEN
        IF is_expired(quiz) THEN "closed"
        ELSE IF quiz.available_from # NoTime /\ now < quiz.available_from
             THEN "upcoming"
        ELSE "no_longer"
    ELSE IF Len(quiz.questions) = 0 THEN "empty"
    ELSE "admit"

\* a Sitting made for every request instead of looked up
dispatch_sitting_fresh(u, c) == nextId

\* QuizTake.dispatch, lines 534-536
dispatch_sitting(u, c) == user_sitting(u, c)

\* a resumed Sitting handed out with its queue filled again
SittingsAfterLookup_restart(u, c) ==
    IF dispatch_sitting(u, c) = nextId
    THEN sittings @@ (nextId :> new_sitting(u, c))
    ELSE IF dispatch_sitting(u, c) = 0 THEN sittings
    ELSE [sittings EXCEPT ![dispatch_sitting(u, c)].question_list =
              sittings[dispatch_sitting(u, c)].question_order]

\* The Sitting table after lines 534-536
SittingsAfterLookup(u, c) ==
    IF dispatch_sitting(u, c) = nextId
    THEN sittings @@ (nextId :> new_sitting(u, c))
    ELSE sittings

\* The page of one question (get_context_data, lines 604-622)
QuestionPage(u, sid, s, previous) ==
    [Resp("question", None) EXCEPT
        !.user = u, !.sid = sid,
        !.question = get_first_question(s),
        !.previous = previous,
        !.progress = sitting_progress(s)]

\* QuizTake.dispatch as a whole: what it leaves in the Sitting table, the
\* response it sends (kind "proceed": none, the request goes on to get/post)
dispatch(u, c) ==
    LET gate == dispatch_gate(u)
        sid == dispatch_sitting(u, c)
        tbl == SittingsAfterLookup(u, c)
    IN  IF gate = "closed" THEN
            [sittings |-> sittings, created |-> FALSE, sid |-> 0,
             resp |-> [Resp("review", gate) EXCEPT !.user = u]]
        ELSE IF gate # "admit" THEN
            [sittings |-> sittings, created |-> FALSE, sid |-> 0,
             resp |-> [Resp("index", gate) EXCEPT !.user = u]]
        ELSE IF sid = 0 THEN
            [sittings |-> sittings, created |-> FALSE, sid |-> 0,
             resp |-> [Resp("index", "exhausted") EXCEPT !.user = u]]
        ELSE IF is_time_expired(tbl[sid]) THEN
            [sittings |-> [tbl EXCEPT ![sid] = mark_quiz_complete(@)],
             created |-> sid = nextId, sid |-> sid,
             resp |-> [Resp("review", "timeout") EXCEPT
                          !.user = u, !.sid = sid]]
        ELSE IF get_first_question(tbl[sid]) = 0 THEN
            [sittings |-> tbl, created |-> sid = nextId, sid |-> sid,
             resp |-> [Resp("error", None) EXCEPT !.user = u, !.sid = sid]]
        ELSE
            [sittings |-> tbl, created |-> sid = nextId, sid |-> sid,
             resp |-> [Resp("proceed", None) EXCEPT !.user = u, !.sid = sid]]

\* GET quiz_take: dispatch, then the question page
QuizTake_get(u, c) ==
    LET d == dispatch(u, c) IN
    /\ d.created => nextId <= MaxSittings
    /\ sittings' = d.sittings
    /\ nextId' = IF d.created THEN nextId + 1 ELSE nextId
    /\ response' = [(IF d.resp.kind = "proceed"
                      THEN QuestionPage(u, d.sid, d.sittings[d.sid],
                                        EmptyPrevious)
                      ELSE d.resp) EXCEPT !.method = "GET"]
    /\ UNCHANGED <<now, quiz, progress, req>>

\* POST quiz_take with the form the client filled in for question posted:
\* dispatch; a valid form goes on to form_valid.  The form is bound to the
\* head of the queue (get_form_kwargs, lines 555-558); the request carries
\* the answer alone, so posted is read nowhere.
QuizTake_form(r, u, c, guess, posted) ==
    LET d == dispatch(u, c) IN
    /\ req[r].pc = "idle"
    /\ \A r2 \in Reqs : r2 < r => req[r2].pc # "idle"
    /\ d.created => nextId <= MaxSittings
    /\ sittings' = d.sittings
    /\ nextId' = IF d.created THEN nextId + 1 ELSE nextId
    /\ IF d.resp.kind = "proceed"
       THEN /\ req' = [req EXCEPT ![r] =
                        [pc |-> "score", user |-> u, course |-> c,
                         sid |-> d.sid,
                         question |-> get_first_question(d.sittings[d.sid]),
                         guess |-> guess]]
            /\ response' = NoResponse
       ELSE /\ response' = [d.resp EXCEPT !.method = "POST"]
            /\ UNCHANGED req
    /\ UNCHANGED <<now, quiz, progress>>

\* POST quiz_take: the client holds the form of one of the quiz's questions
\* (0: of none, when the quiz has no question)
QuizTake_post(r, u, c, guess) ==
    \E posted \in (IF Len(quiz.questions) = 0 THEN {0}
                    ELSE {quiz.questions[k] : k \in 1..Len(quiz.questions)}) :
        QuizTake_form(r, u, c, guess, posted)

\* A step of a request whose Sitting row is gone ends the request
Gone(r) == req[r].sid \notin DOMAIN sittings

Fail(r) ==
    /\ req' = [req EXCEPT ![r] = IdleReq]
    /\ response' = [Resp("error", None) EXCEPT
                       !.method = "POST",
                       !.user = req[r].user, !.sid = req[r].sid]

\* every guess taken for correct
IsCorrect_always(r) == TRUE

IsCorrect(r) == check_if_correct(req[r].question, req[r].guess)

\* form_valid_user, lines 578-584: the Sitting is scored
form_valid_user_score(r) ==
    /\ req[r].pc = "score"
    /\ IF Gone(r)
       THEN Fail(r) /\ UNCHANGED sittings
       ELSE /\ sittings' = [sittings EXCEPT ![req[r].sid] =
                  IF IsCorrect(r) THEN add_to_score(@, 1)
                  ELSE add_incorrect_question(@, req[r].question)]
            /\ req' = [req EXCEPT ![r].pc = "progress"]
            /\ response' = NoResponse
    /\ UNCHANGED <<now, quiz, nextId, progress>>

\* form_valid_user, lines 582 and 585: the learner's Progress is updated
form_valid_user_progress(r) ==
    /\ req[r].pc = "progress"
    /\ progress' = [progress EXCEPT ![req[r].user] =
          update_score(@, IF IsCorrect(r) THEN 1 ELSE 0, 1)]
    /\ req' = [req EXCEPT ![r].pc = "answer"]
    /\ response' = NoResponse
    /\ UNCHANGED <<now, quiz, sittings, nextId>>

\* the answer is not recorded
form_valid_user_answer_skip(r) ==
    /\ req[r].pc = "answer"
    /\ req' = [req EXCEPT ![r].pc = "pop"]
    /\ response' = NoResponse
    /\ UNCHANGED <<now, quiz, sittings, nextId, progress>>

\* form_valid_user, line 598
form_valid_user_answer(r) ==
    /\ req[r].pc = "answer"
    /\ IF Gone(r)
       THEN Fail(r) /\ UNCHANGED sittings
       ELSE /\ sittings' = [sittings EXCEPT ![req[r].sid] =
                  add_user_answer(@, req[r].question, req[r].guess)]
            /\ req' = [req EXCEPT ![r].pc = "pop"]
            /\ response' = NoResponse
    /\ UNCHANGED <<now, quiz, nextId, progress>>

\* the outcome kept whatever answers_at_end says
previous_of_always(question, guess) ==
    [answer |-> guess,
     outcome |-> IF check_if_correct(question, guess)
                 THEN "correct" ELSE "incorrect",
     question |-> question]

\* what form_valid_user leaves in self.previous, lines 587-596
previous_of(question, guess) ==
    IF ~quiz.answers_at_end
    THEN [answer |-> guess,
          outcome |-> IF check_if_correct(question, guess)
                      THEN "correct" ELSE "incorrect",
          question |-> question]
    ELSE EmptyPrevious

\* form_valid_user lines 599-602, then form_valid lines 571-573
form_valid_user_pop(r) ==
    /\ req[r].pc = "pop"
    /\ IF Gone(r)
       THEN Fail(r) /\ UNCHANGED sittings
       ELSE LET s == remove_first_question(sittings[req[r].sid]) IN
            /\ sittings' = [sittings EXCEPT ![req[r].sid] = s]
            /\ IF get_first_question(s) = 0
               THEN /\ req' = [req EXCEPT ![r].pc = "final"]
                    /\ response' = NoResponse
               ELSE /\ req' = [req EXCEPT ![r] = IdleReq]
                    /\ response' =
                          [QuestionPage(req[r].user, req[r].sid, s,
                               previous_of(req[r].question, req[r].guess))
                           EXCEPT !.method = "POST"]
    /\ UNCHANGED <<now, quiz, nextId, progress>>

\* final_result_user, lines 640-644: is the Sitting deleted
deletes_sitting(u) ==
    \/ ~quiz.exam_paper
    \/ is_superuser(u)
    \/ is_lecturer(u)

\* final_result_user, lines 626-638: the result page
ResultPage(u, sid, s, previous) ==
    [Resp("result", None) EXCEPT
        !.method = "POST",
        !.user = u, !.sid = sid,
        !.previous = previous,
        !.score = s.current_score,
        !.percent = get_percent_correct(s),
        !.end = s.end,
        !.with_answers = quiz.answers_at_end]

\* final_result_user, lines 624-647
final_result_user(r) ==
    /\ req[r].pc = "final"
    /\ IF Gone(r)
       THEN Fail(r) /\ UNCHANGED sittings
       ELSE LET s == mark_quiz_complete(sittings[req[r].sid]) IN
            /\ response' = ResultPage(req[r].user, req[r].sid, s,
                  previous_of(req[r].question, req[r].guess))
            /\ sittings' =
                  IF deletes_sitting(req[r].user)
                  THEN [i \in DOMAIN sittings \ {req[r].sid} |-> sittings[i]]
                  ELSE [sittings EXCEPT ![req[r].sid] = s]
            /\ req' = [req EXCEPT ![r] = IdleReq]
    /\ UNCHANGED <<now, quiz, nextId, progress>>

\* form_valid for the guess on question q of Sitting s when no other request
\* steps in between: the page it answers with ("final": the result page)
form_valid_page(u, sid, s, q, guess) ==
    LET s1 == IF check_if_correct(q, guess) THEN add_to_score(s, 1)
              ELSE add_incorrect_question(s, q)
        s3 == remove_first_question(add_user_answer(s1, q, guess))
    IN  IF get_first_question(s3) = 0 THEN Resp("final", None)
        ELSE QuestionPage(u, sid, s3, previous_of(q, guess))

\* the process serving request r dies between two of the saves of
\* form_valid_user (lines 575-602 open no transaction): what is saved stays,
\* the client gets no page
crash(r) ==
    /\ req[r].pc # "idle"
    /\ req' = [req EXCEPT ![r] = IdleReq]
    /\ response' = NoResponse
    /\ UNCHANGED <<now, quiz, sittings, nextId, progress>>

\* ------------------------------------------------------------- admin
\* QuizAdminForm.save (admin.py lines 45-50): the quiz's questions are set
\* to the ones picked in the form, which may be none
QuizAdminForm_save(u, qs) ==
    /\ is_lecturer(u)
    /\ quiz' = [quiz EXCEPT !.questions = qs]
    /\ response' = Resp("saved", None)
    /\ UNCHANGED <<now, sittings, nextId, progress, req>>

\* ------------------------------------------------------------- quiz_list
\* quiz_list, lines 144-209: the entry of the quiz in the list of course c;
\* a user without access is sent home, the list holds the quizzes of the
\* course, and students get it without the draft quizzes
quiz_list(u, c) ==
    /\ response' =
          IF ~can_access(u, c)
          THEN [Resp("home", "no_permission") EXCEPT
                   !.method = "GET", !.user = u]
          ELSE [Resp("list", IF quiz.course # c
                                \/ (is_student(u) /\ quiz.draft)
                             THEN "omitted"
                             ELSE _get_quiz_status(quiz))
                   EXCEPT !.method = "GET", !.user = u]
    /\ UNCHANGED <<now, quiz, sittings, nextId, progress, req>>

\* ------------------------------------------------------------- marking
\* a marking post that only ever marks a question incorrect
marking_post_add_only(s, qid) ==
    IF qid = 0 THEN s ELSE add_incorrect_question(s, qid)

\* QuizMarkingDetail.post, lines 480-486: the Sitting after the post; qid
\* 0 is a post without "qid"
marking_post(s, qid) ==
    IF qid = 0 THEN s
    ELSE IF qid \in get_incorrect_questions(s)
         THEN remove_incorrect_question(s, qid)
         ELSE add_incorrect_question(s, qid)

\* POST quiz_marking_detail for Sitting sid by a lecturer, then the page
QuizMarkingDetail_post(u, sid, qid) ==
    /\ is_lecturer(u) \/ is_superuser(u)
    /\ sid \in DOMAIN sittings
    /\ sittings' = [sittings EXCEPT ![sid] = marking_post(@, qid)]
    /\ response' = [Resp("marking", None) EXCEPT
                       !.method = "POST", !.user = u, !.sid = sid,
                       !.question = qid]
    /\ UNCHANGED <<now, quiz, nextId, progress, req>>

\* ------------------------------------------------------------- results
\* quiz_results, lines 280-282: the Complete Sittings of the quiz filed
\* under course c
results_sittings(c) ==
    {i \in DOMAIN sittings : sittings[i].course = c /\ sittings[i].complete}

\* teacher_quiz_report, lines 346-348: the Complete Sittings of the quiz
report_sittings ==
    {i \in DOMAIN sittings : sittings[i].complete}

\* max(sittings_list, key=lambda s: s.current_score), lines 291 and 357:
\* the first of the Sittings with the highest score
best_sitting(S) ==
    SetMin({i \in S : \A j \in S :
               sittings[i].current_score >= sittings[j].current_score})

\* lines 286-298 and 353-362: one row per user of the Sittings S
student_results(S) ==
    {LET mine == {i \in S : sittings[i].user = u} IN
     [student |-> u,
      best_sitting |-> best_sitting(mine),
      attempts_count |-> Cardinality(mine),
      passed |-> check_if_passed(sittings[best_sitting(mine)])] :
         u \in {sittings[i].user : i \in S}}

\* lines 311 and 368
passed_count(rows) == Cardinality({w \in rows : w.passed})

\* quiz_results: a lecturer's page of the scores of the quiz under course c
quiz_results(u, c) ==
    /\ is_lecturer(u) \/ is_superuser(u)
    /\ response' =
          [Resp("results", None) EXCEPT
              !.method = "GET", !.user = u,
              !.rows = student_results(results_sittings(c)),
              !.passed_count =
                  passed_count(student_results(results_sittings(c)))]
    /\ UNCHANGED <<now, quiz, sittings, nextId, progress, req>>

\* teacher_quiz_report: a lecturer's report over the quizzes of their
\* courses; a quiz without a Complete Sitting is left out
teacher_quiz_report(u) ==
    /\ is_lecturer(u) \/ is_superuser(u)
    /\ response' =
          [Resp("report", IF report_sittings = {} THEN "omitted" ELSE None)
              EXCEPT
              !.method = "GET", !.user = u,
              !.rows = student_results(report_sittings),
              !.passed_count = passed_count(student_results(report_sittings))]
    /\ UNCHANGED <<now, quiz, sittings, nextId, progress, req>>

\* ------------------------------------------------------------- quiz_review
\* a review that finds no Sitting
review_sitting_none(u, c) == 0

\* quiz_review, lines 217-219: the Complete Sitting of (user, quiz, course)
\* the review is about, 0 when there is none
review_sitting(u, c) ==
    LET done == {i \in DOMAIN sittings :
                    /\ sittings[i].user = u
                    /\ sittings[i].course = c
                    /\ sittings[i].complete}
    IN  IF done = {} THEN 0 ELSE SetMin(done)

\* quiz_review, lines 229-234
review_show_answers(sid) ==
    IF quiz.show_correct_answers_after # NoTime
    THEN now >= quiz.show_correct_answers_after
    ELSE IF quiz.allow_review_after_submission /\ sid # 0 THEN TRUE
    ELSE FALSE

\* a review that closes the attempts it finds open
ReviewSittings_closing(u, c) ==
    [i \in DOMAIN sittings |->
        IF sittings[i].user = u /\ sittings[i].course = c
        THEN mark_quiz_complete(sittings[i])
        ELSE sittings[i]]

\* the Sitting table after quiz_review, lines 212-250: it saves nothing
ReviewSittings(u, c) == sittings

\* quiz_review, line 221: is the review served
review_served(u, c) == is_expired(quiz) \/ review_sitting(u, c) # 0

\* quiz_review, lines 212-250
quiz_review(u, c) ==
    LET sid == review_sitting(u, c) IN
    /\ response' =
          IF ~review_served(u, c) THEN
              IF is_available(quiz)
              THEN [Resp("redirect", "quiz_take") EXCEPT
                       !.method = "GET", !.user = u]
              ELSE [Resp("index", "no_review") EXCEPT
                       !.method = "GET", !.user = u]
          ELSE [Resp("review_page", None) EXCEPT
                   !.method = "GET", !.user = u, !.sid = sid,
                   !.with_answers = sid # 0,
                   !.show_answers = review_show_answers(sid)]
    /\ sittings' = ReviewSittings(u, c)
    /\ UNCHANGED <<now, quiz, nextId, progress, req>>

\* the take path for the users US, the course ids CS of the request URLs and
\* the request slots RS
NextTake(US, CS, RS) ==
    \/ \E u \in US, c \in CS : QuizTake_get(u, c)
    \/ \E r \in RS, u \in US, c \in CS, g \in Guesses :
          QuizTake_post(r, u, c, g)
    \/ \E r \in RS : form_valid_user_score(r)
    \/ \E r \in RS : form_valid_user_progress(r)
    \/ \E r \in RS : form_valid_user_answer(r)
    \/ \E r \in RS : form_valid_user_pop(r)
    \/ \E r \in RS : final_result_user(r)

\* The attempt loop: a learner's requests for the quiz under its course,
\* one POST in flight at a time, while the clock runs
Next ==
    \/ Tick
    \/ NextTake(Students, {"c1"}, {1})

Spec == Init /\ [][Next]_vars

\* Availability: the learner's attempt loop while the clock runs, staff
\* toggle the draft flag and open the quiz themselves
NextGate ==
    \/ Tick
    \/ NextTake(Students, {"c1"}, {1})
    \/ \E u \in Staff : QuizTake_get(u, "c1")
    \/ \E u \in Users : quiz_toggle_draft(u)

SpecGate == InitGate /\ [][NextGate]_vars

\* Concurrent requests: a learner with two POSTs in flight, under either
\* course id; the clock stands still
NextRace == NextTake(Students, Courses, Reqs)

SpecRace == InitRace /\ [][NextRace]_vars

\* Review: the learner takes the quiz, and users review it and list the
\* quizzes, while the clock runs and staff toggle the draft flag
NextReview ==
    \/ Tick
    \/ NextTake(Students, {"c1"}, {1})
    \/ \E u \in Users : quiz_toggle_draft(u)
    \/ \E u \in Users : quiz_review(u, "c1")
    \/ \E u \in Users : quiz_list(u, "c1")

SpecReview == InitReview /\ [][NextReview]_vars

\* Admission: the learner's attempt loop while the clock runs and staff
\* toggle the draft flag, pick the quiz's questions and open the quiz
\* themselves
NextAdmit ==
    \/ Tick
    \/ NextTake(Students, {"c1"}, {1})
    \/ \E u \in Staff : QuizTake_get(u, "c1")
    \/ \E u \in Users : quiz_toggle_draft(u)
    \/ \E u \in Users, qs \in {<<>>, <<1>>} : QuizAdminForm_save(u, qs)

SpecAdmit == InitAdmit /\ [][NextAdmit]_vars

\* the answer the learner gives to each question, whenever asked
AnswerSheet == (1 :> "right") @@ (2 :> "wrong") @@ (3 :> "right")

\* Interrupted requests: a learner who answers every question the same way
\* each time, while the serving process may die in the middle of a POST
NextCrash ==
    \/ \E u \in Students : QuizTake_get(u, "c1")
    \/ \E u \in Students, g \in Guesses :
          /\ QuizTake_post(1, u, "c1", g)
          /\ req'[1].pc = "score" => g = AnswerSheet[req'[1].question]
    \/ form_valid_user_score(1)
    \/ form_valid_user_progress(1)
    \/ form_valid_user_answer(1)
    \/ form_valid_user_pop(1)
    \/ final_result_user(1)
    \/ /\ crash(1)
       /\ \A i \in DOMAIN sittings : sittings[i].current_score <= MaxResubmits
       /\ \A u \in Students : progress[u].total <= MaxResubmits

SpecCrash == InitCrash /\ [][NextCrash]_vars

\* Courses: two learners take the quiz under either course id, users list
\* the quizzes of a course, and staff read the results
NextCourse ==
    \/ NextTake(Learners, Courses, {1})
    \/ \E u \in Users \cup Learners, c \in Courses : quiz_list(u, c)
    \/ \E u \in Staff, c \in Courses : quiz_results(u, c)
    \/ \E u \in Staff : teacher_quiz_report(u)

SpecCourse == InitCourse /\ [][NextCourse]_vars

\* Marking: the learner takes the quiz and a lecturer marks the Sittings
NextMarking ==
    \/ NextTake(Students, {"c1"}, {1})
    \/ \E u \in Staff, sid \in DOMAIN sittings, qid \in {0} \cup Questions :
          QuizMarkingDetail_post(u, sid, qid)

SpecMarking == InitMarking /\ [][NextMarking]_vars

\* Question types: the attempt loop over quizzes that hold an Essay
NextEssay == NextTake(Students, {"c1"}, {1})

SpecEssay == InitEssay /\ [][NextEssay]_vars

\* ------------------------------------------------------------- properties
\* a request by u for the quiz under course c reaches QuizTake.dispatch
TakeRequest(u, c) ==
    \/ QuizTake_get(u, c)
    \/ \E r \in Reqs, g \in Guesses : QuizTake_post(r, u, c, g)

SeqSet(q) == {q[i] : i \in 1..Len(q)}

\* C1: a learner never has more Complete Sittings for the quiz than its
\* max_attempts, so max_attempts minus that count is never negative
C1_AttemptCeiling ==
    \A u \in Users : CompletedCount(u) <= quiz.max_attempts

\* the attempts finalized so far when one learner takes the quiz: a Sitting
\* is deleted only by the request that finalized it
FinalizedAttempts ==
    (nextId - 1) -
        Cardinality({i \in DOMAIN sittings : ~sittings[i].complete})

\* C2: once max_attempts attempts are finalized, every later request to take
\* the quiz is refused as exhausted and creates no Sitting, also when the
\* finalized Sittings were deleted
C2_ExhaustedAfterCeiling ==
    [][\A u \in Students, c \in Courses :
          (FinalizedAttempts >= quiz.max_attempts /\ TakeRequest(u, c))
          => (response'.msg = "exhausted" /\ nextId' = nextId)]_vars

SittingFrame(s) ==
    <<s.question_list, s.user_answers, s.incorrect_questions,
      s.current_score, s.attempt_number, s.start>>

\* C4: a request to take the quiz while an unfinished Sitting exists for
\* (user, quiz, course) creates no Sitting and leaves the queue, answers,
\* incorrect set, score, attempt number and start of every Sitting as they
\* were; the Sitting it goes on with is the unfinished one, at its head
C4_AdmitResumes ==
    [][\A u \in Users, c \in Courses :
          (Unfinished(u, c) # {} /\ TakeRequest(u, c))
          => /\ nextId' = nextId
             /\ DOMAIN sittings' = DOMAIN sittings
             /\ \A i \in DOMAIN sittings :
                   SittingFrame(sittings'[i]) = SittingFrame(sittings[i])
             /\ response'.kind = "question"
                   => /\ response'.sid \in Unfinished(u, c)
                      /\ response'.question =
                            get_first_question(sittings[response'.sid])
             /\ \A r \in Reqs : req'[r] # req[r]
                   => /\ req'[r].sid \in Unfinished(u, c)
                      /\ req'[r].question =
                            get_first_question(sittings[req'[r].sid])]_vars

\* a reload in the middle of an attempt is served the second question
C4_ReloadMidAttempt ==
    /\ response.kind = "question" /\ response.method = "GET"
    /\ response.question = 2
    /\ response.sid \in DOMAIN sittings
    /\ 1 \in DOMAIN sittings[response.sid].user_answers

\* C5: in every unfinished Sitting the queue and the answered questions are
\* disjoint, together they are the questions the Sitting was created with,
\* and their sizes add up to the number of questions
C5_QueueAnswersPartition ==
    \A i \in DOMAIN sittings :
        LET s == sittings[i] IN
        ~s.complete =>
            /\ SeqSet(s.question_list) \cap DOMAIN s.user_answers = {}
            /\ SeqSet(s.question_list) \cup DOMAIN s.user_answers
                  = SeqSet(s.question_order)
            /\ Len(s.question_list) + Cardinality(DOMAIN s.user_answers)
                  = Len(s.question_order)

\* C6: with answers_at_end set, the page an answer is answered with is the
\* same for a right and for a wrong answer, and no question page carries the
\* previous answer's outcome
C6_NoLeakBeforeFinalize ==
    quiz.answers_at_end =>
        /\ \A i \in DOMAIN sittings :
              LET s == sittings[i]
                  q == get_first_question(s)
              IN  (~s.complete /\ q # 0) =>
                    form_valid_page(s.user, i, s, q, "right")
                        = form_valid_page(s.user, i, s, q, "wrong")
        /\ response.kind = "question" => response.previous = EmptyPrevious

\* a wrong answer was answered with the next question's page
C6_WrongAnswerAnswered ==
    /\ quiz.answers_at_end
    /\ response.kind = "question" /\ response.method = "POST"
    /\ response.sid \in DOMAIN sittings
    /\ sittings[response.sid].incorrect_questions # {}

\* C7: final_result_user on a Sitting that is already complete returns the
\* stored result and changes neither the Sitting table nor Progress
C7_FinalizeIdempotent ==
    [][\A r \in Reqs :
          (/\ final_result_user(r)
           /\ ~Gone(r)
           /\ sittings[req[r].sid].complete)
          => /\ sittings' = sittings
             /\ progress' = progress
             /\ response'.score = sittings[req[r].sid].current_score
             /\ response'.percent =
                   get_percent_correct(sittings[req[r].sid])
             /\ response'.end = sittings[req[r].sid].end]_vars

\* C8: a POST on an unfinished Sitting whose time limit has elapsed is
\* answered as timed out, records nothing and completes the Sitting
C8_ExpiredSubmitForcesComplete ==
    [][\A u \in Users, c \in Courses : \A i \in Unfinished(u, c) :
          (/\ is_time_expired(sittings[i])
           /\ \E r \in Reqs, g \in Guesses : QuizTake_post(r, u, c, g))
          => /\ response'.msg = "timeout"
             /\ req' = req
             /\ i \in DOMAIN sittings'
             /\ sittings'[i].complete
             /\ sittings'[i].user_answers = sittings[i].user_answers
             /\ sittings'[i].incorrect_questions
                   = sittings[i].incorrect_questions
             /\ sittings'[i].current_score = sittings[i].current_score]_vars

\* C9: the status is draft if the draft flag is set, else upcoming before
\* available_from, else closed after available_until, else active; a null
\* bound bounds nothing
C9_StatusPrecedence ==
    LET st == _get_quiz_status(quiz)
        early == quiz.available_from # NoTime /\ now < quiz.available_from
        late == quiz.available_until # NoTime /\ now > quiz.available_until
    IN  /\ st \in {"draft", "upcoming", "closed", "active"}
        /\ (st = "draft") = quiz.draft
        /\ (st = "upcoming") = (~quiz.draft /\ early)
        /\ (st = "closed") = (~quiz.draft /\ ~early /\ late)
        /\ (st = "active") = (~quiz.draft /\ ~early /\ ~late)
        /\ (quiz.available_from = NoTime /\ quiz.available_until = NoTime
              /\ ~quiz.draft) => st = "active"

\* the draft flag was cleared on a quiz that has not opened yet
C9_UpcomingShown ==
    /\ response.kind = "json" /\ response.msg = "upcoming"
    /\ quiz.available_until # NoTime

\* a request by one of the users US for a quiz that is not active is
\* refused with the status as the reason and touches no Sitting
GateRefuses(US) ==
    \A u \in US, c \in Courses :
        (_get_quiz_status(quiz) # "active" /\ TakeRequest(u, c))
        => /\ response'.kind \in {"index", "review"}
           /\ response'.msg = _get_quiz_status(quiz)
           /\ sittings' = sittings
           /\ nextId' = nextId
           /\ req' = req

\* C10: whoever asks, a quiz that is draft, upcoming or closed admits nobody
C10_OnlyActiveAdmits == [][GateRefuses(Users)]_vars

\* C10 as amended: a quiz that is draft, upcoming or closed admits no
\* student
C10_OnlyActiveAdmitsStudents == [][GateRefuses(Students)]_vars

\* a student with an attempt under way is refused at the closed quiz
C10_StudentRefusedAtClosed ==
    /\ response.user \in Students
    /\ response.kind = "review" /\ response.msg = "closed"
    /\ Unfinished(response.user, "c1") # {}

\* a request by one of the users US is refused by the first check that
\* fails, in the order status, questions, attempts; a refusal touches no
\* Sitting
AdmitOrder(US) ==
    \A u \in US, c \in Courses :
        TakeRequest(u, c) =>
            /\ Len(quiz.questions) = 0 =>
                  /\ sittings' = sittings /\ nextId' = nextId /\ req' = req
                  /\ response'.kind \in {"index", "review"}
            /\ IF _get_quiz_status(quiz) # "active"
               THEN response'.msg = _get_quiz_status(quiz)
               ELSE IF Len(quiz.questions) = 0
               THEN response'.msg = "empty"
               ELSE CompletedCount(u) >= quiz.max_attempts
                       => /\ response'.msg = "exhausted"
                          /\ sittings' = sittings /\ nextId' = nextId

\* C11: a request for a quiz without questions is refused as empty and
\* creates no Sitting; the checks go status, then questions, then attempts,
\* and the first that fails decides the answer
C11_AdmitOrder == [][AdmitOrder(Users)]_vars

\* C11 as amended: the order status, questions, attempts holds for the
\* requests of students
C11_AdmitOrderStudents == [][AdmitOrder(Students)]_vars

\* a student out of attempts is told that the active quiz is empty
C11_EmptyBeforeExhausted ==
    /\ response.user \in Students
    /\ response.kind = "index" /\ response.msg = "empty"
    /\ _get_quiz_status(quiz) = "active"
    /\ CompletedCount(response.user) >= quiz.max_attempts

\* C12: a POST whose form was filled in for another question than the head
\* of the queue is rejected as out of order and leaves the Sitting as it was
C12_OutOfOrderRejected ==
    [][\A r \in Reqs, u \in Users, c \in Courses, g \in Guesses,
         posted \in Questions :
          (/\ QuizTake_form(r, u, c, g, posted)
           /\ dispatch_gate(u) = "admit"
           /\ CompletedCount(u) < quiz.max_attempts
           /\ Unfinished(u, c) # {}
           /\ ~is_time_expired(sittings[SetMin(Unfinished(u, c))])
           /\ posted #
                 get_first_question(sittings[SetMin(Unfinished(u, c))]))
          => /\ response'.msg = "out_of_order"
             /\ req' = req
             /\ sittings' = sittings]_vars

\* C13: a Sitting that is finalized, by the last answer or by the expiry
\* check, is deleted exactly when the quiz is no exam paper and its user is
\* a student
C13_DeletionRule ==
    [][\A i \in DOMAIN sittings :
          (/\ ~sittings[i].complete
           /\ (i \notin DOMAIN sittings' \/ sittings'[i].complete))
          => ((i \notin DOMAIN sittings')
                 <=> (~quiz.exam_paper /\ is_student(sittings[i].user)))]_vars

\* C14: Progress changes in no step but the finalization of a Sitting
C14_ProgressOnlyAtFinalize ==
    [][progress' # progress => \E r \in Reqs : final_result_user(r)]_vars

\* the rule of the answers' visibility: either condition shows them
ShowAnswersRule(sid) ==
    \/ /\ quiz.show_correct_answers_after # NoTime
       /\ now >= quiz.show_correct_answers_after
    \/ quiz.allow_review_after_submission /\ sid # 0

\* C15: the review shows the answers exactly when show_correct_answers_after
\* is set and reached, or allow_review_after_submission is set and the user
\* has a Complete Sitting
C15_ShowAnswers ==
    [][\A u \in Users, c \in Courses :
          (quiz_review(u, c) /\ response'.kind = "review_page")
          => response'.show_answers = ShowAnswersRule(review_sitting(u, c))]_vars

\* C16: the review is served exactly when the status is closed or the user
\* has a Complete Sitting; otherwise the user is sent to the take path if
\* the quiz is available and to the quiz index if not
C16_ReviewServedWhen ==
    [][\A u \in Users, c \in Courses :
          quiz_review(u, c)
          => /\ (response'.kind = "review_page")
                   <=> (\/ _get_quiz_status(quiz) = "closed"
                        \/ review_sitting(u, c) # 0)
             /\ response'.kind # "review_page"
                   => response'.kind =
                         (IF is_available(quiz) THEN "redirect"
                          ELSE "index")]_vars

\* C17: quiz_review changes no Sitting, creates and deletes none, and leaves
\* the quiz and Progress as they were
C17_ReviewReadOnly ==
    [][\A u \in Users, c \in Courses :
          quiz_review(u, c)
          => UNCHANGED <<sittings, nextId, quiz, progress, req>>]_vars

\* the closed quiz is reviewed by a user whose attempt is still open
C17_ReviewWithOpenAttempt ==
    /\ response.kind = "review_page"
    /\ Unfinished(response.user, "c1") # {}

\* C18: while the draft flag is set, no request of a student is answered
\* with the quiz: the list omits it, the take path refuses it, the review
\* renders nothing of it
C18_DraftHiddenFromStudents ==
    [][\A u \in Students, c \in Courses :
          (/\ quiz.draft
           /\ (TakeRequest(u, c) \/ quiz_review(u, c) \/ quiz_list(u, c)))
          => /\ response'.kind \notin {"question", "result", "review_page"}
             /\ response'.kind = "list" => response'.msg = "omitted"
             /\ req' = req]_vars

\* C19: the answer to an Essay question neither raises the score nor enters
\* the incorrect questions, and it counts in no total of Progress
C19_EssayUngraded ==
    [][\A r \in Reqs :
          (req[r].question \in EssayQuestions /\ ~Gone(r))
          => /\ form_valid_user_score(r) => sittings' = sittings
             /\ form_valid_user_progress(r) => progress' = progress]_vars

\* C20: whatever the interleaving of a learner's POSTs, no Sitting is scored
\* for more answers than it has questions, and Progress counts every
\* question of every Sitting at most once
C20_SubmitsSerialized ==
    /\ \A i \in DOMAIN sittings :
          sittings[i].current_score
              + Cardinality(sittings[i].incorrect_questions)
            <= Len(sittings[i].question_order)
    /\ \A u \in Users :
          progress[u].total <= (nextId - 1) * Len(quiz.questions)

\* the answers of Sitting s that were given as guess
AnsweredAs(s, guess) ==
    {q \in DOMAIN s.user_answers : s.user_answers[q] = guess}

\* C21: when a POST was cut short and the learner gave the same answer
\* again, the finished Sitting counts every question once: score, incorrect
\* questions and Progress are those of the answers it holds
C21_CrashResubmitCountedOnce ==
    \A i \in DOMAIN sittings :
        LET s == sittings[i] IN
        s.complete =>
            /\ s.current_score = Cardinality(AnsweredAs(s, "right"))
            /\ s.incorrect_questions = AnsweredAs(s, "wrong")
            /\ progress[s.user] =
                  [correct |-> Cardinality(AnsweredAs(s, "right")),
                   total |-> Cardinality(DOMAIN s.user_answers)]

\* C22: whatever the window and the draft flag, a learner's next request
\* for the attempt, GET or POST, leaves no Sitting whose time limit has run
\* out unfinished
C22_ExpiryEnforcedOnRequest ==
    [][\A u \in Students, c \in Courses : \A i \in Unfinished(u, c) :
          (is_time_expired(sittings[i]) /\ TakeRequest(u, c))
          => \/ i \notin DOMAIN sittings'
             \/ sittings'[i].complete]_vars

\* C23: attempt numbers start at 1 and grow strictly in creation order per
\* learner and quiz, also past Sittings deleted at finalization: with one
\* learner, whose earlier Sittings were all finalized, the k-th Sitting
\* created carries attempt number k
C23_AttemptNumbersIncrease ==
    [][nextId' = nextId + 1
       => /\ nextId \in DOMAIN sittings'
          /\ sittings'[nextId].attempt_number = FinalizedAttempts + 1
          /\ sittings'[nextId].attempt_number = nextId]_vars

\* the rows of a results page are those of the Complete Sittings of the
\* quiz: one row per learner who has one, with the best of them, their
\* number, and the number of rows whose best Sitting passes
ResultsRight(rows, passed) ==
    /\ \A w \in rows :
          /\ w.best_sitting \in DOMAIN sittings
          /\ sittings[w.best_sitting].complete
          /\ sittings[w.best_sitting].user = w.student
          /\ \A i \in DOMAIN sittings :
                (sittings[i].user = w.student /\ sittings[i].complete)
                => sittings[w.best_sitting].current_score
                      >= sittings[i].current_score
          /\ w.attempts_count = CompletedCount(w.student)
    /\ \A u \in Learners :
          Cardinality({w \in rows : w.student = u})
             = IF CompletedCount(u) > 0 THEN 1 ELSE 0
    /\ passed = Cardinality({w \in rows :
                    check_if_passed(sittings[w.best_sitting])})

\* C24: the results page of the quiz and the teacher report list the
\* Complete Sittings grouped by learner, one row per learner who has one,
\* with the best Sitting, the number of attempts and the passed count
C24_ResultsPerLearner ==
    [][\A u \in Staff :
          (quiz_results(u, quiz.course) \/ teacher_quiz_report(u))
          => ResultsRight(response'.rows, response'.passed_count)]_vars

\* C25: a learner who is not enrolled in the course of the quiz is not
\* admitted: their request creates and resumes no Sitting
C25_OnlyEnrolledAdmitted ==
    [][\A u \in Learners, c \in Courses :
          (TakeRequest(u, c) /\ ~TakenCourse(u, quiz.course))
          => /\ sittings' = sittings
             /\ nextId' = nextId
             /\ req' = req
             /\ response'.kind \notin {"question"}]_vars

\* C28: the course of every Sitting is the course that owns its quiz: the
\* course id and the quiz of a request are checked to belong together
C28_SittingCourseOwnsQuiz ==
    \A i \in DOMAIN sittings : sittings[i].course = quiz.course

\* C26: when a learner's submissions come one after the other, each is
\* scored against the head of the queue: it raises the score by 1 or adds
\* the head to the incorrect questions, records the one answer, and pops
\* the head; the next page asks the new head, and the submission that
\* empties the queue goes on to the result, with every question answered
C26_SubmitStepByStep ==
    [][\A r \in Reqs :
          (req[r].pc # "idle" /\ ~Gone(r)) =>
          LET q == req[r].question
              s == sittings[req[r].sid]
              t == sittings'[req[r].sid]
          IN
          /\ form_valid_user_score(r) =>
                /\ q = get_first_question(s)
                /\ q \notin DOMAIN s.user_answers
                /\ IF req[r].guess = "right"
                   THEN t = [s EXCEPT !.current_score = @ + 1]
                   ELSE /\ q \notin s.incorrect_questions
                        /\ t = [s EXCEPT !.incorrect_questions = @ \cup {q}]
          /\ form_valid_user_answer(r) =>
                /\ DOMAIN t.user_answers = DOMAIN s.user_answers \cup {q}
                /\ t.user_answers[q] = req[r].guess
                /\ \A p \in DOMAIN s.user_answers :
                      t.user_answers[p] = s.user_answers[p]
                /\ t.current_score = s.current_score
                /\ t.incorrect_questions = s.incorrect_questions
                /\ t.question_list = s.question_list
          /\ form_valid_user_pop(r) =>
                /\ s.question_list = <<q>> \o t.question_list
                /\ t = [s EXCEPT !.question_list = Tail(s.question_list)]
                /\ IF t.question_list = <<>>
                   THEN /\ req'[r].pc = "final"
                        /\ DOMAIN t.user_answers = SeqSet(t.question_order)
                   ELSE /\ req'[r].pc = "idle"
                        /\ response'.kind = "question"
                        /\ response'.question = Head(t.question_list)
                        /\ response'.question \notin DOMAIN t.user_answers
          /\ final_result_user(r) =>
                /\ response'.kind = "result"
                /\ req'[r].pc = "idle"
                /\ \/ req[r].sid \notin DOMAIN sittings'
                   \/ /\ t.complete
                      /\ Cardinality(DOMAIN t.user_answers)
                            = Len(t.question_order)]_vars

\* a finished attempt with one right and one wrong answer, kept
C26_MixedAttemptFinalized ==
    /\ response.kind = "result"
    /\ response.sid \in DOMAIN sittings
    /\ sittings[response.sid].complete
    /\ sittings[response.sid].current_score = 1
    /\ Cardinality(sittings[response.sid].incorrect_questions) = 1
    /\ Cardinality(DOMAIN sittings[response.sid].user_answers) = 2

\* C27: when no submission is half way, every Sitting has score plus
\* incorrect questions equal to the answered questions, 0 <= score <=
\* answered <= questions, and the incorrect questions are those answered
\* wrong, the score the number of those answered right
C27_ScoreIncorrectAnswered ==
    (\A r \in Reqs : req[r].pc \in {"idle", "final"}) =>
        \A i \in DOMAIN sittings :
            LET s == sittings[i]
                answered == Cardinality(DOMAIN s.user_answers)
            IN
            /\ s.current_score + Cardinality(s.incorrect_questions) = answered
            /\ 0 <= s.current_score
            /\ s.current_score <= answered
            /\ answered <= Len(s.question_order)
            /\ s.incorrect_questions = AnsweredAs(s, "wrong")
            /\ s.current_score = Cardinality(AnsweredAs(s, "right"))

\* an attempt under way after a wrong answer to its first question
C27_WrongAnswerCounted ==
    /\ \A r \in Reqs : req[r].pc = "idle"
    /\ \E i \in DOMAIN sittings :
          /\ ~sittings[i].complete
          /\ sittings[i].current_score = 0
          /\ Cardinality(sittings[i].incorrect_questions) = 1
          /\ Cardinality(DOMAIN sittings[i].user_answers) = 1
          /\ Len(sittings[i].question_list) = 1

\* C29: with the quiz and the clock as they are, a request sent on to the
\* other endpoint does not come back: a take request that redirects to the
\* review leaves a state in which the review is served, the review request
\* that follows it renders the page, and a review request that redirects to
\* take meets a take request that renders, goes to the index, or redirects
\* to a review that is served (two redirects at most)
C29_RedirectChainsEnd ==
    [][\A u \in Users, c \in Courses :
          /\ (TakeRequest(u, c) /\ response'.kind = "review")
                => review_served(u, c)'
          /\ (/\ quiz_review(u, c)
              /\ response.kind = "review"
              /\ response.user = u
              /\ response.sid # 0 => sittings[response.sid].course = c)
                => response'.kind = "review_page"
          /\ (quiz_review(u, c) /\ response'.kind = "redirect")
                => LET d == dispatch(u, c) IN
                   \/ d.resp.kind \in {"proceed", "index", "error"}
                   \/ /\ d.resp.kind = "review"
                      /\ \/ is_expired(quiz)
                         \/ \E i \in DOMAIN d.sittings :
                               /\ d.sittings[i].user = u
                               /\ d.sittings[i].course = c
                               /\ d.sittings[i].complete]_vars

\* the review page of a Sitting the time limit has just closed, its queue
\* not yet empty
C29_ReviewAfterTimeout ==
    /\ response.kind = "review_page"
    /\ response.sid \in DOMAIN sittings
    /\ sittings[response.sid].complete
    /\ sittings[response.sid].end = now
    /\ sittings[response.sid].question_list # <<>>
    /\ ~is_expired(quiz)

\* C30: a marking post with a question id flips that question in the
\* Sitting's incorrect questions and leaves every other question, and every
\* other Sitting, as it was; a second post of the same id restores the set;
\* a post without a question id changes nothing
C30_MarkingToggle ==
    [][\A u \in Staff, sid \in DOMAIN sittings, qid \in {0} \cup Questions :
          QuizMarkingDetail_post(u, sid, qid) =>
          LET a == sittings[sid].incorrect_questions
              b == sittings'[sid].incorrect_questions
          IN
          /\ qid = 0 => sittings' = sittings
          /\ qid # 0 =>
                /\ qid \in b <=> qid \notin a
                /\ b \ {qid} = a \ {qid}
                /\ marking_post(sittings'[sid], qid).incorrect_questions = a
          /\ \A i \in DOMAIN sittings : i # sid => sittings'[i] = sittings[i]
          /\ DOMAIN sittings' = DOMAIN sittings]_vars

\* a wrong answer of a finished Sitting taken out of its incorrect
\* questions by a marking post
C30_WrongAnswerUnmarked ==
    /\ response.kind = "marking"
    /\ response.question # 0
    /\ response.sid \in DOMAIN sittings
    /\ sittings[response.sid].complete
    /\ response.question \in DOMAIN sittings[response.sid].user_answers
    /\ sittings[response.sid].user_answers[response.question] = "wrong"
    /\ response.question \notin sittings[response.sid].incorrect_questions
====
